---- MODULE Spec2Model ----
(***************************************************************************)
(* MeatBagPnP (src/meatbag.py): the main window's placement state machine. *)
(* Strings are sequences of character codes (Python str, compared by code  *)
(* point); table rows are sequences of strings; row indices are 0-based as *)
(* in the source, so row r of a sequence t is t[r + 1].                    *)
(***************************************************************************)
EXTENDS Integers, Sequences, FiniteSets, TLC

VARIABLES
    csv_settings,            \* the layout profile given to the constructor
    board_ok,                \* image loaded and board width/height non-zero
    build_side,              \* 0 = top, 1 = bottom
    all_components_data,     \* grouped rows of the loaded file, header first
    table,                   \* rows shown in the QTableWidget (filtered_data)
    checked,                 \* check state of the last column, per shown row
    has_pdb, pdb, pdc,       \* part-number / comment database of the shown rows
    has_DesList, topDesList, botDesList,   \* match lists of the last match
    cur_placement,           \* current row or None
    drawing_all_same_value,
    place,                   \* text of the "Current Placement" line
    marker_diameter,
    base,                    \* markers painted on the working image
    shown,                   \* markers on the pixmap last handed to the label
    last_keys, timerScan,    \* key accumulator and its single-shot timer
    scanLine, timerScanLineEdit,   \* scan line text and its single-shot timer
    webView,                 \* tokens of page loads in flight
    last_op                  \* the handler that ran last and how it ended

vars == << csv_settings, board_ok, build_side, all_components_data, table,
           checked, has_pdb, pdb, pdc, has_DesList, topDesList, botDesList,
           cur_placement, drawing_all_same_value, place, marker_diameter,
           base, shown, last_keys, timerScan, scanLine, timerScanLineEdit,
           webView, last_op >>

-----------------------------------------------------------------------------
(* Bounds of the model.                                                    *)

\* most rows of a file the operator opens
MaxFileRows == 3
\* most "+" steps of the marker size
MaxMarkerSteps == 2
\* most page loads in flight
MaxLookups == 1

-----------------------------------------------------------------------------
(* Python values.                                                          *)

\* cur_placement = None
None == -1

Range(s) == { s[i] : i \in 1..Len(s) }

\* str.lower() of one character: only A-Z change
LowerChar(c) == IF c >= 65 /\ c <= 90 THEN c + 32 ELSE c

\* str.lower()
lower(s) == [ i \in 1..Len(s) |-> LowerChar(s[i]) ]

\* str.startswith(p)
startswith(s, p) == Len(p) <= Len(s) /\ SubSeq(s, 1, Len(p)) = p

\* the substring test `a in b` of two strings
StrIn(a, b) ==
    \E k \in 0..(Len(b) - Len(a)) : SubSeq(b, k + 1, k + Len(a)) = a

\* str < str : lexicographic by code point, a proper prefix is smaller
RECURSIVE StrLess(_, _)
StrLess(a, b) ==
    IF b = <<>> THEN FALSE
    ELSE IF a = <<>> THEN TRUE
    ELSE IF a[1] # b[1] THEN a[1] < b[1]
    ELSE StrLess(Tail(a), Tail(b))

\* whitespace removed by str.strip(): space, \t, \n, \v, \f, \r
IsSpace(c) == c \in {32, 9, 10, 11, 12, 13}

\* str.strip()
RECURSIVE strip(_)
strip(s) ==
    IF s = <<>> THEN s
    ELSE IF IsSpace(s[1]) THEN strip(Tail(s))
    ELSE IF IsSpace(s[Len(s)]) THEN strip(SubSeq(s, 1, Len(s) - 1))
    ELSE s

\* float(text) succeeds: digits with at most one '.', at least one digit
\* (the texts of the model hold no sign, exponent, blank, inf or nan)
IsFloat(s) ==
    /\ \A i \in 1..Len(s) : (s[i] >= 48 /\ s[i] <= 57) \/ s[i] = 46
    /\ \E i \in 1..Len(s) : s[i] >= 48 /\ s[i] <= 57
    /\ Cardinality({ i \in 1..Len(s) : s[i] = 46 }) <= 1

-----------------------------------------------------------------------------
(* Texts used by the program and by the files of the model.                *)

S_top == <<116, 111, 112>>                                  \* "top"
S_bot == <<98, 111, 116>>                                   \* "bot"
S_bottom == <<98, 111, 116, 116, 111, 109>>                 \* "bottom"
S_unknown == <<63, 63, 63>>                                 \* "???"
S_NotFound == <<78, 111, 116, 32, 70, 111, 117, 110, 100>>  \* "Not Found"
S_Done == <<68, 111, 110, 101>>                             \* "Done"
S_underscore == <<95>>                                      \* "_"
S_space == <<32>>                                           \* " "
S_plus == <<43>>                                            \* "+"
S_minus == <<45>>                                           \* "-"
S_a == <<97>>                                               \* "a"
S_return == <<13>>                                          \* "\r"

-----------------------------------------------------------------------------
(* Layout profiles.                                                        *)

MeatBagCSVSettingsAltium ==
    [ col_layer |-> 2, col_x |-> 4, col_y |-> 5, col_pn |-> 8,
      col_des |-> 0, col_com |-> 1, row_start |-> 1 ]

MeatBagCSVSettingsKicadSingleLayer ==
    [ col_layer |-> -1, col_x |-> 3, col_y |-> 4, col_pn |-> 1,
      col_des |-> 0, col_com |-> 1, row_start |-> 1 ]

MeatBagCSVSettingsKicadMultiLayer ==
    [ MeatBagCSVSettingsKicadSingleLayer EXCEPT !.col_layer = 6 ]

\* the profiles the source defines
Profiles == { MeatBagCSVSettingsAltium, MeatBagCSVSettingsKicadSingleLayer,
              MeatBagCSVSettingsKicadMultiLayer }

\* the profiles main() hands to the window: --format altium, eagle, kicad
csvSettingsAvailable ==
    { MeatBagCSVSettingsAltium, MeatBagCSVSettingsKicadMultiLayer }

-----------------------------------------------------------------------------
(* The window's attributes as one record, so that a handler is a function  *)
(* from the record before it runs to the record after it ran.  Field exc   *)
(* names the exception that ended the handler, or "none"; field fnp tells  *)
(* that find_next_placement ran to its end in the handler; field match     *)
(* names the last match the handler ran and whether it filled both lists.  *)

NoMatch == [ kind |-> "none", token |-> <<>>, done |-> FALSE ]

Window ==
    [ csv_settings |-> csv_settings, board_ok |-> board_ok,
      build_side |-> build_side, all_components_data |-> all_components_data,
      table |-> table, checked |-> checked,
      has_pdb |-> has_pdb, pdb |-> pdb, pdc |-> pdc,
      has_DesList |-> has_DesList, topDesList |-> topDesList,
      botDesList |-> botDesList, cur_placement |-> cur_placement,
      drawing_all_same_value |-> drawing_all_same_value, place |-> place,
      marker_diameter |-> marker_diameter, base |-> base, shown |-> shown,
      last_keys |-> last_keys, timerScan |-> timerScan,
      scanLine |-> scanLine, timerScanLineEdit |-> timerScanLineEdit,
      webView |-> webView, exc |-> "none", fnp |-> FALSE, match |-> NoMatch ]

Raise(s, e) == [ s EXCEPT !.exc = e ]

-----------------------------------------------------------------------------
(* The table widget.                                                       *)

rowCount(s) == Len(s.table)

\* setColumnCount(len(header_row) + 1): the last column holds the check box
columnCount(s) == IF s.table = <<>> THEN 0 ELSE Len(s.table[1]) + 1

\* table.item(r, c) is not None
HasItem(s, r, c) ==
    r >= 0 /\ r < rowCount(s) /\ c >= 0 /\ c < columnCount(s)

\* table.item(r, c).text(); the check box item has no text
ItemText(s, r, c) ==
    IF c = columnCount(s) - 1 THEN <<>> ELSE s.table[r + 1][c + 1]

\* isTopLayer(row): "True", "False", or the exception it raises
isTopLayer(s, row) ==
    IF s.csv_settings.col_layer < 0 THEN "True"
    ELSE IF ~HasItem(s, row, s.csv_settings.col_layer) THEN "AttributeError"
    ELSE LET tb == ItemText(s, row, s.csv_settings.col_layer) IN
         IF startswith(lower(tb), S_top) THEN "True"
         ELSE IF startswith(lower(tb), S_bot) THEN "False"
         ELSE "ValueError"

\* recolourTable(): only colours change; the exception it ends with.  The
\* check box of every row exists; isTopLayer's ValueError is caught, a
\* missing layer item is not.
recolourTable(s) ==
    IF \E r \in s.csv_settings.row_start..(rowCount(s) - 1) :
           isTopLayer(s, r) = "AttributeError"
    THEN Raise(s, "AttributeError")
    ELSE s

-----------------------------------------------------------------------------
(* Loading a file.                                                         *)

\* the key of a row's group: f"{value}_{layer}"
GroupKey(cs, row) ==
    row[cs.col_com + 1] \o S_underscore \o
    (IF cs.col_layer >= 0 THEN row[cs.col_layer + 1] ELSE S_top)

\* the sort key of a row within its group
DesKey(cs, row) == IF Len(row) > cs.col_des THEN row[cs.col_des + 1] ELSE <<>>

\* list.sort(key=...) is stable: a row goes behind the rows that do not
\* sort after it
RECURSIVE InsertByDes(_, _, _)
InsertByDes(cs, row, sorted) ==
    IF sorted = <<>> THEN <<row>>
    ELSE IF StrLess(DesKey(cs, row), DesKey(cs, sorted[1]))
         THEN <<row>> \o sorted
         ELSE <<sorted[1]>> \o InsertByDes(cs, row, Tail(sorted))

RECURSIVE SortByDes(_, _, _)
SortByDes(cs, rows, acc) ==
    IF rows = <<>> THEN acc
    ELSE SortByDes(cs, Tail(rows), InsertByDes(cs, rows[1], acc))

\* sorted(value_groups.items()): the keys in increasing order
RECURSIVE SortedKeys(_)
SortedKeys(keys) ==
    IF keys = {} THEN <<>>
    ELSE LET k == CHOOSE x \in keys : \A y \in keys \ {x} : StrLess(x, y)
         IN  <<k>> \o SortedKeys(keys \ {k})

RECURSIVE ConcatGroups(_, _, _)
ConcatGroups(cs, rows, keys) ==
    IF keys = <<>> THEN <<>>
    ELSE SortByDes(cs,
                   SelectSeq(rows, LAMBDA r : GroupKey(cs, r) = keys[1]),
                   <<>>)
         \o ConcatGroups(cs, rows, Tail(keys))

\* group_components_by_value that keeps the rows in the order of the file
group_components_by_value_unsorted(cs, ppdata) ==
    IF ppdata = <<>> THEN [ exc |-> "none", val |-> ppdata ]
    ELSE [ exc |-> "none",
           val |-> <<ppdata[1]>> \o
                   SelectSeq(Tail(ppdata),
                             LAMBDA r : ~(Len(r) <= cs.col_com)) ]

\* group_components_by_value(ppdata): [exc, val]
group_components_by_value(cs, ppdata) ==
    IF ppdata = <<>> THEN [ exc |-> "none", val |-> ppdata ]
    ELSE
      LET header_row == ppdata[1]
          data_rows == Tail(ppdata)
          kept == SelectSeq(data_rows, LAMBDA r : ~(Len(r) <= cs.col_com))
      IN  IF \E i \in 1..Len(kept) :
                 cs.col_layer >= 0 /\ Len(kept[i]) <= cs.col_layer
          THEN [ exc |-> "IndexError", val |-> <<>> ]
          ELSE [ exc |-> "none",
                 val |-> <<header_row>> \o
                         ConcatGroups(cs, kept,
                             SortedKeys({ GroupKey(cs, kept[i]) :
                                          i \in 1..Len(kept) })) ]

\* "top" or "bottom"
target_side(s) == IF s.build_side = 0 THEN S_top ELSE S_bottom

\* the test of the filter loop of update_table_for_selected_side
ShownOnSide(s, row) ==
    IF Len(row) > s.csv_settings.col_layer /\ s.csv_settings.col_layer >= 0
    THEN startswith(lower(row[s.csv_settings.col_layer + 1]),
                    SubSeq(target_side(s), 1, 3))
    ELSE IF s.csv_settings.col_layer < 0 THEN target_side(s) = S_top
    ELSE FALSE

\* filtered_data
filtered_data(s) ==
    <<s.all_components_data[1]>> \o
    SelectSeq(Tail(s.all_components_data), LAMBDA r : ShownOnSide(s, r))

\* the cells of one table row: the row's fields under the header's columns,
\* "???" where the row has none
TableRow(row, width) ==
    [ c \in 1..width |-> IF c <= Len(row) THEN row[c] ELSE S_unknown ]

\* column col of the rows, "" where a row is too short (pdb, pdc)
ColumnOf(rows, col) ==
    [ r \in 1..Len(rows) |->
        IF Len(rows[r]) > col THEN rows[r][col + 1] ELSE <<>> ]

update_table_for_selected_side(s) ==
    IF s.all_components_data = <<>> THEN s
    ELSE
      LET fd == filtered_data(s)
          width == Len(s.all_components_data[1])
      IN  recolourTable(
            [ s EXCEPT
                !.table = [ r \in 1..Len(fd) |-> TableRow(fd[r], width) ],
                !.checked = [ r \in 1..Len(fd) |-> FALSE ],
                !.has_pdb = TRUE,
                !.pdb = ColumnOf(fd, s.csv_settings.col_pn),
                !.pdc = ColumnOf(fd, s.csv_settings.col_com) ])

\* the rows csv.reader yields that parseCSVFile keeps
AcceptedRows(file) == SelectSeq(file, LAMBDA r : ~(Len(r) < 4))

parseCSVFile(s, file) ==
    LET g == group_components_by_value(s.csv_settings, AcceptedRows(file))
    IN  IF g.exc # "none" THEN Raise(s, g.exc)
        ELSE update_table_for_selected_side(
                 [ s EXCEPT !.all_components_data = g.val ])

sideSelectionChanged(s, indx) ==
    update_table_for_selected_side([ s EXCEPT !.build_side = indx ])

-----------------------------------------------------------------------------
(* The board image.                                                        *)

\* a marker on the image: where it is and whether x was mirrored (its size
\* is marker_diameter at the time of drawing)
Marker(x, y, mirror) == [ x |-> x, y |-> y, mirror |-> mirror ]

\* PCBPainter.draw_marker(x, y, mirror) on the working image
draw_marker(s, x, y, mirror) ==
    IF ~s.board_ok THEN Raise(s, "ZeroDivisionError")
    ELSE [ s EXCEPT !.base = @ \cup { Marker(x, y, mirror) } ]

\* PCBPainter.redraw()
redraw(s) == [ s EXCEPT !.shown = s.base ]

\* PCBPainter.xy_to_draw(x, y, mirror): reload_base, draw_marker, redraw
xy_to_draw(s, x, y, mirror) ==
    LET d == draw_marker([ s EXCEPT !.base = {} ], x, y, mirror)
    IN  IF d.exc # "none" THEN d ELSE redraw(d)

\* PCBPainter.marker_diameter_increment(): the record and the value returned
marker_diameter_increment(s) ==
    [ s |-> [ s EXCEPT !.marker_diameter = @ + 10 ], ret |-> TRUE ]

\* PCBPainter.marker_diameter_decrement()
marker_diameter_decrement(s) ==
    IF s.marker_diameter < 10 THEN [ s |-> s, ret |-> FALSE ]
    ELSE [ s |-> [ s EXCEPT !.marker_diameter = @ - 10 ], ret |-> TRUE ]

-----------------------------------------------------------------------------
(* The placement sequencer.                                                *)

\* the exception the arguments of xy_to_draw raise for row r, or "none":
\* float(x text), float(y text), isTopLayer(r), in this order
DrawArgsExc(s, r) ==
    IF ~HasItem(s, r, s.csv_settings.col_x) THEN "AttributeError"
    ELSE IF ~IsFloat(ItemText(s, r, s.csv_settings.col_x)) THEN "ValueError"
    ELSE IF ~HasItem(s, r, s.csv_settings.col_y) THEN "AttributeError"
    ELSE IF ~IsFloat(ItemText(s, r, s.csv_settings.col_y)) THEN "ValueError"
    ELSE IF isTopLayer(s, r) \in {"True", "False"} THEN "none"
    ELSE isTopLayer(s, r)

\* the match list of the active side
ActiveParts(s) == IF s.build_side = 0 THEN s.topDesList ELSE s.botDesList

\* update_placement with "Not Found" decided by the active side's list alone
update_placement_active_only(s) ==
    LET s1 == [ s EXCEPT !.drawing_all_same_value = FALSE ]
        cur == s.cur_placement
    IN  IF cur # None
        THEN IF ~HasItem(s1, cur, s1.csv_settings.col_des)
             THEN Raise(s1, "AttributeError")
             ELSE LET s2 == [ s1 EXCEPT !.place =
                                ItemText(s1, cur, s1.csv_settings.col_des) ]
                  IN  IF DrawArgsExc(s2, cur) # "none"
                      THEN Raise(s2, DrawArgsExc(s2, cur))
                      ELSE xy_to_draw(s2,
                               ItemText(s2, cur, s2.csv_settings.col_x),
                               ItemText(s2, cur, s2.csv_settings.col_y),
                               isTopLayer(s2, cur) = "False")
        ELSE IF ~s1.has_DesList THEN Raise(s1, "AttributeError")
        ELSE IF Len(ActiveParts(s1)) = 0
             THEN [ s1 EXCEPT !.place = S_NotFound ]
             ELSE [ s1 EXCEPT !.place = S_Done ]

update_placement(s) ==
    LET s1 == [ s EXCEPT !.drawing_all_same_value = FALSE ]
        cur == s.cur_placement
    IN  IF cur # None
        THEN IF ~HasItem(s1, cur, s1.csv_settings.col_des)
             THEN Raise(s1, "AttributeError")
             ELSE LET s2 == [ s1 EXCEPT !.place =
                                ItemText(s1, cur, s1.csv_settings.col_des) ]
                  IN  IF DrawArgsExc(s2, cur) # "none"
                      THEN Raise(s2, DrawArgsExc(s2, cur))
                      ELSE xy_to_draw(s2,
                               ItemText(s2, cur, s2.csv_settings.col_x),
                               ItemText(s2, cur, s2.csv_settings.col_y),
                               isTopLayer(s2, cur) = "False")
        ELSE IF ~s1.has_DesList THEN Raise(s1, "AttributeError")
        ELSE IF Len(s1.topDesList) = 0 /\ Len(s1.botDesList) = 0
             THEN [ s1 EXCEPT !.place = S_NotFound ]
             ELSE [ s1 EXCEPT !.place = S_Done ]

\* the loop of find_next_placement over parts: the first unchecked row, None
\* when there is none, or -2 when a row of the list has no item in the table
RECURSIVE FirstUnchecked(_, _)
FirstUnchecked(s, parts) ==
    IF parts = <<>> THEN None
    ELSE IF ~HasItem(s, parts[1], columnCount(s) - 1) THEN -2
    ELSE IF ~s.checked[parts[1] + 1] THEN parts[1]
    ELSE FirstUnchecked(s, Tail(parts))

find_next_placement(s) ==
    LET s1 == [ s EXCEPT !.cur_placement = None ] IN
    IF ~s1.has_DesList THEN Raise(s1, "AttributeError")
    ELSE LET p == FirstUnchecked(s1, ActiveParts(s1)) IN
         IF p = -2 THEN Raise(s1, "AttributeError")
         ELSE LET s2 == update_placement([ s1 EXCEPT !.cur_placement = p ])
              IN  IF s2.exc # "none" THEN s2 ELSE [ s2 EXCEPT !.fnp = TRUE ]

-----------------------------------------------------------------------------
(* The matcher.                                                            *)

\* the rows of db, in order, that match the token: a field longer than
\* minlen that is in the token, or a field the token is in
RECURSIVE MatchList(_, _, _, _)
MatchList(db, token, minlen, i) ==
    IF i >= Len(db) THEN <<>>
    ELSE (IF (Len(db[i + 1]) > minlen /\ StrIn(db[i + 1], token))
              \/ StrIn(token, db[i + 1])
          THEN <<i>> ELSE <<>>)
         \o MatchList(db, token, minlen, i + 1)

\* the loop over matchlist of process_new_pn / process_new_com: rows go to
\* topDesList or botDesList until isTopLayer raises
RECURSIVE SplitBySide(_, _)
SplitBySide(s, matchlist) ==
    IF matchlist = <<>> THEN s
    ELSE LET r == matchlist[1]
             side == isTopLayer(s, r)
         IN  IF side = "True"
             THEN SplitBySide([ s EXCEPT !.topDesList = Append(@, r) ],
                              Tail(matchlist))
             ELSE IF side = "False"
             THEN SplitBySide([ s EXCEPT !.botDesList = Append(@, r) ],
                              Tail(matchlist))
             ELSE Raise(s, side)

\* the body shared by process_new_pn (db = pdb, minlen = 4) and
\* process_new_com (db = pdc, minlen = 3)
ProcessNew(s, kind, db, token, minlen, update) ==
    IF ~s.has_pdb THEN Raise(s, "AttributeError")
    ELSE LET s1 == SplitBySide([ s EXCEPT !.has_DesList = TRUE,
                                          !.topDesList = <<>>,
                                          !.botDesList = <<>>,
                                          !.match = [ kind |-> kind,
                                                      token |-> token,
                                                      done |-> FALSE ] ],
                               MatchList(db, token, minlen, 0))
         IN  IF s1.exc # "none" THEN s1
             ELSE IF update
                  THEN find_next_placement([ s1 EXCEPT !.match.done = TRUE ])
                  ELSE [ s1 EXCEPT !.match.done = TRUE ]

\* process_new_pn that wants a field longer than 5
process_new_pn_longer(s, pn, update) ==
    ProcessNew(s, "pn", s.pdb, pn, 5, update)

process_new_pn(s, pn, update) == ProcessNew(s, "pn", s.pdb, pn, 4, update)

process_new_com(s, com, update) == ProcessNew(s, "com", s.pdc, com, 3, update)

-----------------------------------------------------------------------------
(* Keystroke commands.                                                     *)

\* the rows p of parts, other than the current one, whose part number text
\* equals txt; <<-2>> in front when a row of the list has no item
RECURSIVE SamePartRows(_, _, _)
SamePartRows(s, parts, txt) ==
    IF parts = <<>> THEN <<>>
    ELSE IF parts[1] = s.cur_placement
         THEN SamePartRows(s, Tail(parts), txt)
    ELSE IF ~HasItem(s, parts[1], s.csv_settings.col_pn) THEN <<-2>>
    ELSE IF ItemText(s, parts[1], s.csv_settings.col_pn) # txt
         THEN SamePartRows(s, Tail(parts), txt)
    ELSE IF ~HasItem(s, parts[1], s.csv_settings.col_x)
            \/ ~HasItem(s, parts[1], s.csv_settings.col_y) THEN <<-2>>
    ELSE IF ~IsFloat(ItemText(s, parts[1], s.csv_settings.col_x))
            \/ ~IsFloat(ItemText(s, parts[1], s.csv_settings.col_y))
         THEN <<-3>>
    ELSE LET rest == SamePartRows(s, Tail(parts), txt)
         IN  IF rest # <<>> /\ rest[1] < 0 THEN rest
             ELSE <<parts[1]>> \o rest

\* draw_marker(pos[0], pos[1]) for every row of rows: mirror is left at its
\* default
RECURSIVE DrawAll(_, _)
DrawAll(s, rows) ==
    IF rows = <<>> \/ s.exc # "none" THEN s
    ELSE DrawAll(draw_marker(s,
                     ItemText(s, rows[1], s.csv_settings.col_x),
                     ItemText(s, rows[1], s.csv_settings.col_y),
                     FALSE),
                 Tail(rows))

\* toggle_draw_all_of_current_value(): always returns a false value
toggle_draw_all_of_current_value(s) ==
    IF s.cur_placement = None \/ s.cur_placement = 0 THEN s
    ELSE IF s.drawing_all_same_value
    THEN update_placement([ s EXCEPT !.drawing_all_same_value = FALSE ])
    ELSE IF ~HasItem(s, s.cur_placement, s.csv_settings.col_pn)
    THEN Raise(s, "AttributeError")
    ELSE
      LET txt == ItemText(s, s.cur_placement, s.csv_settings.col_pn)
          rows == SamePartRows(s, ActiveParts(s), txt)
      IN  IF rows # <<>> /\ rows[1] = -2 THEN Raise(s, "AttributeError")
          ELSE IF rows # <<>> /\ rows[1] = -3 THEN Raise(s, "ValueError")
          ELSE IF rows = <<>> THEN s
          ELSE LET s1 == update_placement(s) IN
               IF s1.exc # "none" THEN s1
               ELSE LET s2 == DrawAll(s1, rows) IN
                    IF s2.exc # "none" THEN s2
                    ELSE redraw([ s2 EXCEPT !.drawing_all_same_value = TRUE ])

\* process_keystroke(txt): KeyAction.matches compares lower-cased
process_keystroke(s, txt) ==
    IF lower(txt) = S_plus
    THEN update_placement(marker_diameter_increment(s).s)
    ELSE IF lower(txt) = S_minus
    THEN IF marker_diameter_decrement(s).ret
         THEN update_placement(marker_diameter_decrement(s).s)
         ELSE s
    ELSE IF lower(txt) = S_a THEN toggle_draw_all_of_current_value(s)
    ELSE s

-----------------------------------------------------------------------------
(* Scans.                                                                  *)

\* index (1-based) of the first occurrence of sep in str, 0 when there is none
FindStr(str, sep) ==
    IF StrIn(sep, str)
    THEN CHOOSE k \in 1..Len(str) :
            /\ k + Len(sep) - 1 <= Len(str)
            /\ SubSeq(str, k, k + Len(sep) - 1) = sep
            /\ \A j \in 1..(k - 1) : SubSeq(str, j, j + Len(sep) - 1) # sep
    ELSE 0

\* str.split(sep)[0]
SplitHead(str, sep) ==
    IF FindStr(str, sep) = 0 THEN str
    ELSE SubSeq(str, 1, FindStr(str, sep) - 1)

\* what follows the first sep in str
SplitRest(str, sep) ==
    SubSeq(str, FindStr(str, sep) + Len(sep), Len(str))

S_1P == <<49, 80>>              \* "1P"
S_K1K5 == <<75, 49, 75, 53>>    \* "K1K5"

\* process_new_scan that takes only scans shorter than 3 for keystrokes
process_new_scan_from_3(s, scan) ==
    IF Len(scan) < 3 THEN process_keystroke(s, scan)
    ELSE
      LET s1 == process_new_pn(s, scan, FALSE) IN
      IF s1.exc # "none" THEN s1
      ELSE IF Len(s1.topDesList) > 0 \/ Len(s1.botDesList) > 0
      THEN find_next_placement(s1)
      ELSE IF scan[1] = 91 /\ scan[2] = 41
      THEN IF Len(scan) > 30
           THEN IF FindStr(scan, S_1P) = 0 THEN Raise(s1, "IndexError")
                ELSE process_new_pn(s1,
                         SplitHead(SplitHead(SplitRest(scan, S_1P), S_1P),
                                   S_K1K5),
                         TRUE)
           ELSE Raise(s1, "NotImplementedError")
      ELSE [ s1 EXCEPT !.webView = Append(@, scan) ]

process_new_scan(s, scan) ==
    IF Len(scan) < 5 THEN process_keystroke(s, scan)
    ELSE
      LET s1 == process_new_pn(s, scan, FALSE) IN
      IF s1.exc # "none" THEN s1
      ELSE IF Len(s1.topDesList) > 0 \/ Len(s1.botDesList) > 0
      THEN find_next_placement(s1)
      ELSE IF scan[1] = 91 /\ scan[2] = 41        \* "[)" : Digi-Key
      THEN IF Len(scan) > 30
           THEN IF FindStr(scan, S_1P) = 0 THEN Raise(s1, "IndexError")
                ELSE process_new_pn(s1,
                         SplitHead(SplitHead(SplitRest(scan, S_1P), S_1P),
                                   S_K1K5),
                         TRUE)
           ELSE \* int(scan[10:16]), urlopen or the raise that follows them
                Raise(s1, "NotImplementedError")
      ELSE [ s1 EXCEPT !.webView = Append(@, scan) ]

\* handle_html(html) of lookupdone: html holds the part number pn, or none
\* (pn = <<>> stands for a page without the part number division)
handle_html(s, found, pn) ==
    IF found THEN process_new_pn(s, pn, TRUE) ELSE s

\* highlight_component_at_row(row): ValueError and AttributeError are caught
highlight_component_at_row(s, row) ==
    IF ~HasItem(s, row, s.csv_settings.col_des) THEN s
    ELSE IF DrawArgsExc(s, row) # "none" THEN s
    ELSE xy_to_draw([ s EXCEPT !.place =
                         ItemText(s, row, s.csv_settings.col_des) ],
                    ItemText(s, row, s.csv_settings.col_x),
                    ItemText(s, row, s.csv_settings.col_y),
                    isTopLayer(s, row) = "False")

table_cellClicked(s, row) ==
    IF row < s.csv_settings.row_start THEN s
    ELSE
      LET s1 == highlight_component_at_row(s, row) IN
      IF s1.exc # "none" THEN s1
      ELSE IF ~HasItem(s1, row, s1.csv_settings.col_pn)
              \/ ~HasItem(s1, row, s1.csv_settings.col_com)
      THEN Raise(s1, "AttributeError")
      ELSE LET pn == ItemText(s1, row, s1.csv_settings.col_pn)
               com == ItemText(s1, row, s1.csv_settings.col_com)
           IN  IF pn = <<>> THEN process_new_com(s1, com, TRUE)
               ELSE process_new_pn(s1, pn, TRUE)

\* key_pressed that keeps the last key only
key_pressed_last_only(s, key) ==
    [ s EXCEPT !.last_keys = key, !.timerScan = TRUE ]

key_pressed(s, key) ==
    [ s EXCEPT !.last_keys = @ \o key, !.timerScan = TRUE ]

\* timesUp whose advance branch forgets to check the row it leaves
timesUp_no_check(s) ==
    LET scan == s.last_keys
        s1 == [ s EXCEPT !.last_keys = <<>>, !.timerScan = FALSE ]
    IN  IF scan = S_space
        THEN LET last_place == s1.cur_placement IN
             IF last_place # None
                /\ ~HasItem(s1, last_place, columnCount(s1) - 1)
             THEN Raise(s1, "AttributeError")
             ELSE LET s3 == find_next_placement(s1)
                  IN  IF s3.exc # "none" THEN s3 ELSE recolourTable(s3)
        ELSE [ s1 EXCEPT !.scanLine = strip(scan),
                         !.timerScanLineEdit = TRUE ]

timesUp(s) ==
    LET scan == s.last_keys
        s1 == [ s EXCEPT !.last_keys = <<>>, !.timerScan = FALSE ]
    IN  IF scan = S_space
        THEN LET last_place == s1.cur_placement IN
             IF last_place # None
                /\ ~HasItem(s1, last_place, columnCount(s1) - 1)
             THEN Raise(s1, "AttributeError")
             ELSE LET s2 == IF last_place = None THEN s1
                            ELSE [ s1 EXCEPT !.checked[last_place + 1] = TRUE ]
                      s3 == find_next_placement(s2)
                  IN  IF s3.exc # "none" THEN s3 ELSE recolourTable(s3)
        ELSE [ s1 EXCEPT !.scanLine = strip(scan),
                         !.timerScanLineEdit = TRUE ]

scanline_changed_dly(s) ==
    process_new_scan([ s EXCEPT !.timerScanLineEdit = FALSE ], s.scanLine)

-----------------------------------------------------------------------------
(* The files, keys and pages of the model.                                 *)

D_Ref == <<82, 101, 102>>          \* "Ref"
D_C1 == <<67, 49>>                 \* "C1"
D_C2 == <<67, 50>>                 \* "C2"
D_C3 == <<67, 51>>                 \* "C3"
D_R1 == <<82, 49>>                 \* "R1"
D_R2 == <<82, 50>>                 \* "R2"
D_X1 == <<88, 49>>                 \* "X1"
V_Val == <<86, 97, 108>>           \* "Val"
V_10k == <<49, 48, 107>>           \* "10k"
V_100n == <<49, 48, 48, 110>>      \* "100n"
V_100nF == <<49, 48, 48, 110, 70>> \* "100nF"
V_100nf == <<49, 48, 48, 110, 102>> \* "100nf"
L_Side == <<83, 105, 100, 101>>    \* "Side"
L_Top == <<84, 111, 112>>          \* "Top"
L_mid == <<109, 105, 100>>         \* "mid"
P_PN == <<80, 78>>                 \* "PN"
P_AB123 == <<65, 66, 49, 50, 51>>  \* "AB123"
P_AB1234 == <<65, 66, 49, 50, 51, 52>>  \* "AB1234"
P_ZZ999 == <<90, 90, 57, 57, 57>>  \* "ZZ999"
P_ab123 == <<97, 98, 49, 50, 51>>  \* "ab123"
P_none == <<>>                     \* ""
N_PosX == <<80, 111, 115, 88>>     \* "PosX"
N_1 == <<49, 46, 48>>              \* "1.0"
N_2 == <<50, 46, 48>>              \* "2.0"
N_3 == <<51, 46, 48>>              \* "3.0"

\* a line with the designator in column 0, the value in 1, the layer in 2
\* and 6, numbers in 3, 4 and 5 and the part number in 8: every built-in
\* profile finds its columns in it (x, y is x, x under the KiCad profiles
\* and x, "3.0" under the Altium profile)
Line(des, val, layer, x, pn) ==
    << des, val, layer, x, x, N_3, layer, N_3, pn >>

HeaderLine == << D_Ref, V_Val, L_Side, N_PosX, N_PosX, N_PosX, L_Side, V_Val, P_PN >>

\* the lines files are made of, in the order they stand in a file; the part
\* number column repeats the value, so a scanned value matches under every
\* profile
InteractLines ==
    << HeaderLine,
       Line(D_C2, V_100nF, S_top, N_2, V_100nF),
       Line(D_C1, V_100nF, S_top, N_1, V_100nF),
       Line(D_C3, V_100nF, S_bottom, N_3, V_100nF),
       Line(D_R1, V_10k, S_top, N_1, V_10k),
       Line(D_R2, V_10k, S_bot, N_2, V_10k) >>

\* every order-preserving selection of lines
RECURSIVE Selections(_)
Selections(lines) ==
    IF lines = <<>> THEN { <<>> }
    ELSE LET rest == Selections(Tail(lines))
         IN  rest \cup { <<lines[1]>> \o f : f \in rest }

\* the files made of lines: the empty file, and the first line (the header
\* line) followed by some of the others
FilesOf(lines) ==
    { f \in Selections(lines) :
        Len(f) <= MaxFileRows /\ (f = <<>> \/ f[1] = lines[1]) }

Files == FilesOf(InteractLines)

\* what the operator or the scanner types in one burst
ScanInputs == { S_space, V_10k, V_100nF, P_ZZ999 }

\* part numbers a looked-up page can show
PagePNs == { V_100nF }

-----------------------------------------------------------------------------
(* The state machine.                                                      *)

\* the window MeatBagWindow.__init__ builds before it looks at the csv
\* argument
NewWindow(settings, ok) ==
    [ csv_settings |-> settings, board_ok |-> ok,
      build_side |-> 0, all_components_data |-> <<>>,
      table |-> <<>>, checked |-> <<>>,
      has_pdb |-> FALSE, pdb |-> <<>>, pdc |-> <<>>,
      has_DesList |-> FALSE, topDesList |-> <<>>, botDesList |-> <<>>,
      cur_placement |-> None, drawing_all_same_value |-> FALSE,
      place |-> <<>>, marker_diameter |-> 20, base |-> {}, shown |-> {},
      last_keys |-> <<>>, timerScan |-> FALSE,
      scanLine |-> <<>>, timerScanLineEdit |-> FALSE,
      webView |-> <<>>, exc |-> "none", fnp |-> FALSE, match |-> NoMatch ]

\* the variables hold the window r
IsWindow(r, op, arg) ==
    /\ csv_settings = r.csv_settings
    /\ board_ok = r.board_ok
    /\ build_side = r.build_side
    /\ all_components_data = r.all_components_data
    /\ table = r.table
    /\ checked = r.checked
    /\ has_pdb = r.has_pdb
    /\ pdb = r.pdb
    /\ pdc = r.pdc
    /\ has_DesList = r.has_DesList
    /\ topDesList = r.topDesList
    /\ botDesList = r.botDesList
    /\ cur_placement = r.cur_placement
    /\ drawing_all_same_value = r.drawing_all_same_value
    /\ place = r.place
    /\ marker_diameter = r.marker_diameter
    /\ base = r.base
    /\ shown = r.shown
    /\ last_keys = r.last_keys
    /\ timerScan = r.timerScan
    /\ scanLine = r.scanLine
    /\ timerScanLineEdit = r.timerScanLineEdit
    /\ webView = r.webView
    /\ last_op = [ op |-> op, arg |-> arg, exc |-> r.exc, fnp |-> r.fnp,
                   match |-> r.match ]

\* MeatBagWindow.__init__ without a csv argument, with one of the profiles
InitFrom(profiles) ==
    \E settings \in profiles, ok \in BOOLEAN :
        IsWindow(NewWindow(settings, ok), "init", <<>>)

\* MeatBagWindow.__init__ with a csv argument, as main() calls it
InitWithFile(files) ==
    \E settings \in csvSettingsAvailable, ok \in BOOLEAN, f \in files :
        IsWindow(parseCSVFile(NewWindow(settings, ok), f), "init", <<>>)

\* the window main() builds when no csv argument is given
Init == InitFrom(csvSettingsAvailable)

\* the window after a handler ended with record r
Commit(r, op, arg) ==
    /\ csv_settings' = r.csv_settings
    /\ board_ok' = r.board_ok
    /\ build_side' = r.build_side
    /\ all_components_data' = r.all_components_data
    /\ table' = r.table
    /\ checked' = r.checked
    /\ has_pdb' = r.has_pdb
    /\ pdb' = r.pdb
    /\ pdc' = r.pdc
    /\ has_DesList' = r.has_DesList
    /\ topDesList' = r.topDesList
    /\ botDesList' = r.botDesList
    /\ cur_placement' = r.cur_placement
    /\ drawing_all_same_value' = r.drawing_all_same_value
    /\ place' = r.place
    /\ marker_diameter' = r.marker_diameter
    /\ base' = r.base
    /\ shown' = r.shown
    /\ last_keys' = r.last_keys
    /\ timerScan' = r.timerScan
    /\ scanLine' = r.scanLine
    /\ timerScanLineEdit' = r.timerScanLineEdit
    /\ webView' = r.webView
    /\ last_op' = [ op |-> op, arg |-> arg, exc |-> r.exc, fnp |-> r.fnp,
                    match |-> r.match ]

\* File > Open...
OpenFileFrom(files) ==
    \E f \in files : Commit(parseCSVFile(Window, f), "openFile", f)

\* the Top/Bottom combo box
SideSelectionChanged ==
    /\ \E indx \in {0, 1} :
          Commit(sideSelectionChanged(Window, indx), "sideSelectionChanged",
                 <<indx>>)

\* a click on a cell of the table
TableCellClicked ==
    /\ \E row \in 0..(rowCount(Window) - 1) :
          Commit(table_cellClicked(Window, row), "table_cellClicked", <<row>>)

\* a proper or improper prefix of something the operator types
IsTypedPrefix(inputs, keys) ==
    \E t \in inputs : Len(keys) <= Len(t) /\ SubSeq(t, 1, Len(keys)) = keys

\* a key press seen by the event filter
KeyPressedFrom(inputs) ==
    /\ \E t \in inputs : \E i \in 1..Len(t) :
          /\ IsTypedPrefix(inputs, last_keys \o <<t[i]>>)
          /\ Commit(key_pressed(Window, <<t[i]>>), "key_pressed", <<t[i]>>)

\* the scan does not take the model over its bounds
WithinBounds(r) ==
    /\ Len(r.webView) <= MaxLookups
    /\ r.marker_diameter <= 20 + 10 * MaxMarkerSteps

\* timerScan times out
TimesUp ==
    /\ timerScan
    /\ Commit(timesUp(Window), "timesUp", last_keys)

\* timerScanLineEdit times out
ScanlineChangedDly ==
    /\ timerScanLineEdit
    /\ WithinBounds(scanline_changed_dly(Window))
    /\ Commit(scanline_changed_dly(Window), "scanline_changed_dly", scanLine)

\* key_pressed for every character of keys
RECURSIVE TypeKeys(_, _)
TypeKeys(s, keys) ==
    IF keys = <<>> THEN s
    ELSE TypeKeys(key_pressed(s, <<keys[1]>>), Tail(keys))

\* one burst of the scanner (or one key of the operator) with nothing else
\* happening until both single-shot timers have run out: key_pressed for
\* each character, timesUp and, when timesUp started it, scanline_changed_dly
ScanBurst(s, keys) ==
    LET s1 == timesUp(TypeKeys(s, keys))
    IN  IF s1.exc = "none" /\ s1.timerScanLineEdit
        THEN scanline_changed_dly(s1)
        ELSE s1

ScanFrom(inputs) ==
    /\ ~timerScan /\ ~timerScanLineEdit
    /\ \E t \in inputs :
          /\ WithinBounds(ScanBurst(Window, t))
          /\ Commit(ScanBurst(Window, t), "scan", t)

\* the page load ends and its html is handed to handle_html
LookupDoneFrom(pns) ==
    /\ webView # <<>>
    /\ \/ Commit(handle_html([ Window EXCEPT !.webView = Tail(@) ],
                             FALSE, <<>>),
                 "lookupdone", <<>>)
       \/ \E pn \in pns :
            Commit(handle_html([ Window EXCEPT !.webView = Tail(@) ],
                               TRUE, pn),
                   "lookupdone", pn)

\* the operator opens a file while none is loaded
OpenFile == all_components_data = <<>> /\ OpenFileFrom(Files)

Scan == ScanFrom(ScanInputs)

LookupDone == LookupDoneFrom(PagePNs)

Next ==
    \/ OpenFile
    \/ SideSelectionChanged
    \/ TableCellClicked
    \/ Scan
    \/ LookupDone

Spec == Init /\ [][Next]_vars

-----------------------------------------------------------------------------
(* Vocabulary of the claims.                                               *)

\* the step is the advance signal: a burst that is one space
AdvanceStep == last_op'.op = "scan" /\ last_op'.arg = S_space

\* row r of the table with check states chk is marked placed
PlacedIn(chk, r) == r >= 0 /\ r < Len(chk) /\ chk[r + 1]

\* row c comes strictly later than row r in the list parts
LaterIn(parts, r, c) ==
    \E i, j \in 1..Len(parts) : i < j /\ parts[i] = r /\ parts[j] = c

\* the cells of the shown rows that are marked placed
PlacedRows == { table[r] : r \in { q \in 1..Len(table) : checked[q] } }

\* C1: on a current row r the advance signal marks r placed, and the cursor
\* is then NoCursor or a row strictly later than r in the active side's
\* match list.
C1_AdvanceMarksAndMovesOn ==
    [][ (AdvanceStep /\ cur_placement # None) =>
          /\ PlacedIn(checked', cur_placement)
          /\ \/ cur_placement' = None
             \/ LaterIn(IF build_side' = 0 THEN topDesList' ELSE botDesList',
                        cur_placement, cur_placement') ]_vars

\* C3: the current row, when set, is a row of the shown table, is in the
\* match list of the active side and is unplaced.
C3_CursorInActiveListUnplaced ==
    cur_placement # None =>
        /\ cur_placement >= 0 /\ cur_placement < Len(table)
        /\ has_DesList
        /\ cur_placement \in Range(IF build_side = 0 THEN topDesList
                                   ELSE botDesList)
        /\ ~checked[cur_placement + 1]

\* C4: only the advance signal changes a placed flag: a lookup scan, a
\* keystroke command, a row click and a side toggle leave the placed
\* components as they are (opening a file starts them all unplaced).
C4_OnlyAdvanceChangesPlaced ==
    [][ (~AdvanceStep /\ last_op'.op # "openFile") =>
            PlacedRows' = PlacedRows ]_vars

\* C5: a click on a data row (one the handler ends without an error) makes
\* exactly that row current and marks no row placed.
C5_ClickSelectsThatRow ==
    [][ (last_op'.op = "table_cellClicked"
         /\ last_op'.arg[1] >= csv_settings.row_start
         /\ last_op'.exc = "none") =>
            /\ cur_placement' = last_op'.arg[1]
            /\ checked' = checked ]_vars

\* the match list of the active side, and of the other side
ActiveList == IF build_side = 0 THEN topDesList ELSE botDesList

OtherList == IF build_side = 0 THEN botDesList ELSE topDesList

\* find_next_placement ran to its end in the last handler and left no
\* current row
FindNextEndedInNoCursor == last_op.fnp /\ cur_placement = None

TwoSidedFile ==
    << HeaderLine,
       Line(D_C3, V_100nF, S_bottom, N_3, V_100nF),
       Line(D_C1, V_100nF, S_top, N_1, V_100nF) >>

\* the grouped file of one top-side R1 and one bottom-side R2 of value
\* "10k" under a header line
TenKFile ==
    << HeaderLine,
       Line(D_R2, V_10k, S_bot, N_2, V_10k),
       Line(D_R1, V_10k, S_top, N_1, V_10k) >>

\* the step is a scan burst of the token t
ScanStep(t) == last_op'.op = "scan" /\ last_op'.arg = t

\* C10 as the spec states it: with R1 (top) and R2 (bottom) of value "10k"
\* loaded and side TOP active, scanning "10k" yields top_rows = [0] and
\* bottom_rows = [].
C10_Scan10kMatchesRow0 ==
    [][ (all_components_data = TenKFile /\ build_side = 0
         /\ ScanStep(V_10k)) =>
            /\ has_DesList'
            /\ topDesList' = <<0>>
            /\ botDesList' = <<>> ]_vars

\* C10 amended: with a header line, C1 (top) and C3 (bottom) of value
\* "100nF" loaded under a profile with a layer column, side TOP active and
\* nothing placed, scanning "100nF" yields top_rows = [1], bottom_rows = []
\* and row 1 current; the advance that follows marks row 1 placed, leaves
\* no current row and the display reads "Done".
C10_Scan100nFThenAdvance ==
    [][ /\ (all_components_data = TwoSidedFile /\ build_side = 0
            /\ checked = <<FALSE, FALSE>> /\ ScanStep(V_100nF)) =>
               /\ topDesList' = <<1>>
               /\ botDesList' = <<>>
               /\ cur_placement' = 1
        /\ (all_components_data = TwoSidedFile /\ build_side = 0
            /\ checked = <<FALSE, FALSE>>
            /\ last_op.op = "scan" /\ last_op.arg = V_100nF
            /\ AdvanceStep) =>
               /\ checked' = <<FALSE, TRUE>>
               /\ cur_placement' = None
               /\ place' = S_Done ]_vars

\* the advance after the scan of "100nF" has run: row 1 is placed, nothing
\* is current and the display reads "Done"
C10_Witness ==
    /\ all_components_data = TwoSidedFile
    /\ build_side = 0
    /\ last_op.op = "scan" /\ last_op.arg = S_space /\ last_op.fnp
    /\ topDesList = <<1>> /\ botDesList = <<>>
    /\ checked = <<FALSE, TRUE>>
    /\ cur_placement = None
    /\ place = S_Done

-----------------------------------------------------------------------------
(* Loading and side views: files with an undecidable layer and short rows.  *)

\* a line of five fields: designator, value, layer and two numbers
ShortLine(des, val, layer, x) == << des, val, layer, x, x >>

\* the lines the files of the load specification are made of
LoadLines ==
    << HeaderLine,
       Line(D_C1, V_100nF, S_top, N_1, V_100nF),
       Line(D_C3, V_100nF, S_bottom, N_3, V_100nF),
       Line(D_X1, V_10k, L_mid, N_2, V_10k),
       ShortLine(D_R1, V_10k, L_Top, N_1),
       << D_R2, V_10k, S_bot >> >>

LoadFiles == FilesOf(LoadLines)

\* the operator opens a file, also over a loaded one
OpenLoadFile == OpenFileFrom(LoadFiles)

LoadNext ==
    \/ OpenLoadFile
    \/ SideSelectionChanged

\* every profile of the source, files with undecidable layers and short rows
SpecLoad == InitFrom(Profiles) /\ [][LoadNext]_vars

\* the cells a loaded row shows in the table
ShownCells(row) == TableRow(row, Len(all_components_data[1]))

\* the component rows a table shows: all its rows but the header row
ViewOf(t) == Range(Tail(t))

\* C7: with a file loaded, the rows shown for one side and the rows shown
\* after toggling to the other side are disjoint and together are all the
\* accepted component rows: each accepted row is in exactly one view.
C7_SideViewsPartitionAcceptedRows ==
    [][ (last_op'.op = "sideSelectionChanged" /\ build_side' # build_side
         /\ all_components_data # <<>>) =>
            \A i \in 2..Len(all_components_data) :
                (ShownCells(all_components_data[i]) \in ViewOf(table))
                    # (ShownCells(all_components_data[i]) \in ViewOf(table')) ]_vars

\* row i of the loaded file has a layer field that names no side
UnknownLayer(data, i) ==
    /\ csv_settings.col_layer >= 0
    /\ Len(data[i]) > csv_settings.col_layer
    /\ ~startswith(lower(data[i][csv_settings.col_layer + 1]), S_top)
    /\ ~startswith(lower(data[i][csv_settings.col_layer + 1]), S_bot)

\* C8: when a loaded component row has a layer field that starts with
\* neither "top" nor "bot", computing the side view (at load and at every
\* side selection) ends with an error for that row.
C8_UnknownLayerSurfacesError ==
    [][ (last_op'.op \in {"openFile", "sideSelectionChanged"}
         /\ \E i \in 2..Len(all_components_data') :
               UnknownLayer(all_components_data', i)) =>
            last_op'.exc = "ValueError" ]_vars

-----------------------------------------------------------------------------
(* Matching: part numbers of five and six characters, values of four and   *)
(* five, rows without a part number, upper and lower case, and a row whose *)
(* part number and value are those of the header line.                     *)

\* the lines the files of the match specification are made of
MatchLines ==
    << HeaderLine,
       Line(D_C1, V_100n, S_top, N_1, P_AB123),
       Line(D_C2, V_100nF, S_top, N_2, P_none),
       Line(D_C3, V_100nf, S_bottom, N_3, P_AB1234),
       Line(D_R1, V_100nF, S_bot, N_1, P_ab123),
       Line(D_X1, V_Val, S_top, N_2, P_PN) >>

MatchFiles == FilesOf(MatchLines)

\* what the scanner reads
MatchTokens == { P_AB123, P_AB1234, V_100nF }

\* part numbers a looked-up page can show
MatchPagePNs == { P_AB1234 }

OpenMatchFile == all_components_data = <<>> /\ OpenFileFrom(MatchFiles)

ScanMatch == ScanFrom(MatchTokens)

LookupDoneMatch == LookupDoneFrom(MatchPagePNs)

MatchNext ==
    \/ OpenMatchFile
    \/ SideSelectionChanged
    \/ TableCellClicked
    \/ ScanMatch
    \/ LookupDoneMatch

SpecMatch == Init /\ [][MatchNext]_vars

\* the database the last match went through
MatchDb == IF last_op.match.kind = "pn" THEN pdb ELSE pdc

\* the rows of db that match token when a field of at least least
\* characters may match as a part of the token
RowsMatching(db, token, least) ==
    { i \in 0..(Len(db) - 1) :
        \/ Len(db[i + 1]) >= least /\ StrIn(db[i + 1], token)
        \/ StrIn(token, db[i + 1]) }

\* the matching rows whose side cannot be derived
Undecided(rows) ==
    { r \in rows : isTopLayer(Window, r) \notin {"True", "False"} }

\* the matching rows in front of the first one whose side cannot be derived
Decided(rows) ==
    { r \in rows : \A u \in Undecided(rows) : r < u }

\* the list holds exactly the rows of the set, in increasing order
IsIncreasingListOf(list, rows) ==
    /\ Range(list) = rows
    /\ \A i, j \in 1..Len(list) : i < j => list[i] < list[j]

\* the match lists are those of rows, by derived side
ListsAre(rows) ==
    /\ IsIncreasingListOf(topDesList,
           { r \in rows : isTopLayer(Window, r) = "True" })
    /\ IsIncreasingListOf(botDesList,
           { r \in rows : isTopLayer(Window, r) = "False" })

\* C6 as the spec states it: a row is matched iff its field is longer than
\* 5 (part number) or 4 (value/comment) and lies in the token, or the token
\* lies in the field; the matched rows are in top_rows / bottom_rows by
\* side, in increasing order.
C6_MatchRuleExceeds5And4 ==
    last_op.match.done =>
        ListsAre(RowsMatching(MatchDb, last_op.match.token,
                              IF last_op.match.kind = "pn" THEN 6 ELSE 5))

\* C6 amended: a row is matched iff its field has at least 5 (part number)
\* or 4 (value/comment) characters and lies in the token, or the token lies
\* in the field, case-sensitively; the match lists hold, by derived side and
\* in increasing table order, the matched rows in front of the first matched
\* row whose side cannot be derived, and all matched rows when there is no
\* such row.
C6_MatchRuleAtLeast5And4 ==
    last_op.match.kind \in {"pn", "com"} =>
        LET rows == RowsMatching(MatchDb, last_op.match.token,
                                 IF last_op.match.kind = "pn" THEN 5 ELSE 4)
        IN  /\ ListsAre(Decided(rows))
            /\ last_op.match.done <=> (Undecided(rows) = {})

\* a part number match ended in which a part number field of exactly five
\* characters, a proper part of the token, put its row in a match list
C6_Witness ==
    /\ last_op.match.kind = "pn"
    /\ last_op.match.done
    /\ \E r \in Range(topDesList) \cup Range(botDesList) :
          /\ Len(pdb[r + 1]) = 5
          /\ pdb[r + 1] # last_op.match.token
          /\ StrIn(pdb[r + 1], last_op.match.token)

-----------------------------------------------------------------------------
(* Keystroke commands: the window is started on a file and the operator    *)
(* types short tokens between matches, clicks and side selections.         *)

\* the lines the files of the keystroke specification are made of
KeyLines ==
    << HeaderLine,
       Line(D_C1, V_100nF, S_top, N_1, V_100nF),
       Line(D_C3, V_100nF, S_bottom, N_3, V_100nF),
       Line(D_R1, V_10k, S_top, N_2, V_10k) >>

\* the files given on the command line: the header line and one or more rows
KeyFiles == { f \in FilesOf(KeyLines) : Len(f) >= 2 }

\* what the operator types in one burst
KeyInputs == { S_space, S_plus, S_minus, S_a, S_return, V_10k, V_100nF }

ScanKeys == ScanFrom(KeyInputs)

KeysNext ==
    \/ ScanKeys
    \/ TableCellClicked
    \/ SideSelectionChanged

SpecKeys == InitWithFile(KeyFiles) /\ [][KeysNext]_vars

\* the step is a burst that is not the advance signal and whose scan string
\* has fewer than 5 characters
KeystrokeScanStep ==
    /\ last_op'.op = "scan"
    /\ last_op'.arg # S_space
    /\ Len(strip(last_op'.arg)) < 5

\* the marker update_placement draws for the current row of the table
CurrentMarker ==
    Marker(table[cur_placement + 1][csv_settings.col_x + 1],
           table[cur_placement + 1][csv_settings.col_y + 1],
           isTopLayer(Window, cur_placement) = "False")

\* C9: a scan string of fewer than 5 characters never runs the matcher: the
\* match lists, the current row, the placed flags and the table are
\* unchanged by it.  The token "+" adds one step (10) to the marker size
\* and redraws the current placement: with a current row its designator and
\* its marker alone are shown, without one the display reads "Not Found" or
\* "Done"; side, file, databases and pending lookups are unchanged.
C9_ShortScanIsKeystrokeOnly ==
    [][ KeystrokeScanStep =>
          /\ last_op'.match = NoMatch
          /\ ~last_op'.fnp
          /\ UNCHANGED << has_DesList, topDesList, botDesList, cur_placement,
                          checked, table >>
          /\ (last_op'.arg = S_plus =>
                /\ marker_diameter' = marker_diameter + 10
                /\ UNCHANGED << build_side, all_components_data, has_pdb, pdb,
                                pdc, webView, csv_settings, board_ok >>
                /\ (last_op'.exc = "none" /\ cur_placement # None =>
                        /\ shown' = { CurrentMarker }
                        /\ place' = table[cur_placement + 1]
                                         [csv_settings.col_des + 1]
                        /\ ~drawing_all_same_value')
                /\ (last_op'.exc = "none" /\ cur_placement = None =>
                        /\ shown' = shown
                        /\ place' \in { S_NotFound, S_Done })) ]_vars

\* "+" was typed on a current row: the marker is one step larger and the
\* current row's marker is the one shown
C9_Witness ==
    /\ last_op.op = "scan" /\ last_op.arg = S_plus /\ last_op.exc = "none"
    /\ cur_placement # None
    /\ cur_placement < Len(table)
    /\ marker_diameter = 30
    /\ shown = { CurrentMarker }

\* ---------------------------------------------------------------------
\* The keystroke debounce, key by key: key presses, the time-out of
\* timerScan and the time-out of timerScanLineEdit are separate steps.

\* what reaches the event filter: the space bar, and a scanner's burst that
\* ends in a carriage return
DebounceInputs == { S_space, V_100nF \o S_return }

KeyPressed == KeyPressedFrom(DebounceInputs)

DebounceNext ==
    \/ KeyPressed
    \/ TimesUp
    \/ ScanlineChangedDly

SpecDebounce == InitWithFile(KeyFiles) /\ [][DebounceNext]_vars

\* the token a time-out of timerScan emits: the advance signal, or the text
\* it sets on the scan line
EmittedToken == IF last_op.arg = S_space THEN S_space ELSE scanLine

\* C11 as the spec states it: the token emitted at the time-out is the
\* concatenation, in arrival order, of all characters received since the
\* previous emission.
C11_TokenIsAllCharacters ==
    [][ last_op'.op = "timesUp" => EmittedToken' = last_keys ]_vars

\* C11 amended: a key press appends its character to the accumulator and
\* (re)starts the timer; the accumulator and the timer change in no other
\* step than a key press and the time-out; the time-out happens only with
\* the timer running, empties the accumulator and stops the timer; a lone
\* space is the advance signal and leaves the scan line alone, any other
\* accumulated text is emitted (set on the scan line, starting its timer)
\* with its leading and trailing white space removed; the scan line's
\* time-out hands the scan line's text to the matcher unchanged.
C11_TokenIsStrippedCharacters ==
    [][ /\ (last_op'.op = "key_pressed" =>
              /\ last_keys' = last_keys \o last_op'.arg
              /\ timerScan'
              /\ UNCHANGED << scanLine, timerScanLineEdit >>)
        /\ (last_keys' # last_keys \/ timerScan' # timerScan =>
              last_op'.op \in { "key_pressed", "timesUp" })
        /\ (last_op'.op = "timesUp" =>
              /\ timerScan
              /\ last_keys' = <<>>
              /\ ~timerScan'
              /\ IF last_keys = S_space
                 THEN /\ UNCHANGED << scanLine, timerScanLineEdit >>
                      /\ last_op'.exc = "none" => last_op'.fnp
                 ELSE /\ scanLine' = strip(last_keys)
                      /\ timerScanLineEdit'
                      /\ ~last_op'.fnp)
        /\ (last_op'.op = "scanline_changed_dly" =>
              /\ timerScanLineEdit
              /\ ~timerScanLineEdit'
              /\ UNCHANGED << scanLine, last_keys, timerScan >>
              /\ (last_op'.match.done => last_op'.match.token = scanLine)) ]_vars

\* the scanner's burst "100nF" and a carriage return timed out: the
\* accumulator is empty and the scan line holds "100nF" without the
\* carriage return
C11_Witness ==
    /\ last_op.op = "timesUp"
    /\ last_op.arg = V_100nF \o S_return
    /\ last_keys = <<>>
    /\ ~timerScan
    /\ scanLine = V_100nF
    /\ timerScanLineEdit

\* ---------------------------------------------------------------------
\* A scan during a pending web lookup (specification SpecMatch).

\* the last step was a scan of a token other than the one whose web lookup
\* is still pending: the match lists and the current row are that scan's
SecondScanWhilePending ==
    /\ webView # <<>>
    /\ last_op.op = "scan"
    /\ last_op.exc = "none"
    /\ last_op.match.done
    /\ last_op.match.token # webView[1]

\* C12: the match lists and the current row a second scan determined while
\* an earlier web lookup was pending are not replaced when that lookup
\* completes.
C12_LookupDoneKeepsSecondScan ==
    [][ (SecondScanWhilePending /\ last_op'.op = "lookupdone") =>
            UNCHANGED << has_DesList, topDesList, botDesList,
                         cur_placement >> ]_vars

\* ---------------------------------------------------------------------
\* Short rows at load (specification SpecLoad).

\* the rows of the file a load is to keep: those of four fields or more
UsableRows(file) == { r \in Range(file) : Len(r) >= 4 }

\* C13: a load of a file with a usable row (four fields or more) ends
\* without an error under every profile, and the loaded data are exactly
\* the usable rows of the file: every row of fewer than four fields is
\* left out and every other row is kept.
C13_LoadKeepsRowsOfFourFields ==
    [][ (last_op'.op = "openFile" /\ UsableRows(last_op'.arg) # {}) =>
            /\ last_op'.exc = "none"
            /\ Range(all_components_data') = UsableRows(last_op'.arg)
            /\ Len(all_components_data') =
                  Cardinality(UsableRows(last_op'.arg)) ]_vars

\* ---------------------------------------------------------------------
\* The grouping step as a function of the file: files whose rows come in
\* and out of order, with a value ("100n") that is the beginning of
\* another ("100nF").

GroupLines ==
    << HeaderLine,
       Line(D_C3, V_100n, S_top, N_3, V_100n),
       Line(D_C2, V_100nF, S_top, N_2, V_100nF),
       Line(D_C1, V_100nF, S_top, N_1, V_100nF),
       Line(D_R1, V_100nF, S_bottom, N_1, V_100nF) >>

\* the same lines with the component rows in the opposite order
GroupLinesBack ==
    << GroupLines[1], GroupLines[5], GroupLines[4], GroupLines[3],
       GroupLines[2] >>

GroupFiles == FilesOf(GroupLines) \cup FilesOf(GroupLinesBack)

OpenGroupFile == OpenFileFrom(GroupFiles)

GroupNext ==
    \/ OpenGroupFile
    \/ SideSelectionChanged

SpecGroup == InitFrom(Profiles) /\ [][GroupNext]_vars

\* value and layer of a row, the two parts of its group key
ValueOf(row) == row[csv_settings.col_com + 1]

LayerOf(row) ==
    IF csv_settings.col_layer >= 0 THEN row[csv_settings.col_layer + 1]
    ELSE S_top

\* the pair (value, layer) of a does not come after that of b
PairLeq(a, b) ==
    \/ StrLess(ValueOf(a), ValueOf(b))
    \/ ValueOf(a) = ValueOf(b) /\ ~StrLess(LayerOf(b), LayerOf(a))

\* the text value_layer of a does not come after that of b
KeyTextLeq(a, b) ==
    ~StrLess(GroupKey(csv_settings, b), GroupKey(csv_settings, a))

\* out is the first row of in followed by a rearrangement of its other rows
IsHeaderAndPermutation(in, out) ==
    /\ Len(out) = Len(in)
    /\ in # <<>> => out[1] = in[1]
    /\ \A r \in Range(in) \cup Range(out) :
          Cardinality({ i \in 2..Len(in) : in[i] = r }) =
          Cardinality({ i \in 2..Len(out) : out[i] = r })

\* within a group the designators do not decrease
SortedByDesInGroups(out) ==
    \A i, j \in 2..Len(out) :
        (i < j /\ ValueOf(out[i]) = ValueOf(out[j])
               /\ LayerOf(out[i]) = LayerOf(out[j])) =>
            ~StrLess(DesKey(csv_settings, out[j]), DesKey(csv_settings, out[i]))

\* grouping the grouped rows again gives the same rows in the same order
Regrouped(out) ==
    group_components_by_value(csv_settings, out) =
        [ exc |-> "none", val |-> out ]

\* a load ended and left the grouped rows of its file
Grouped == last_op.op = "openFile" /\ last_op.exc = "none"

HighlightLines ==
    << HeaderLine,
       Line(D_C1, V_100nF, S_top, N_1, V_100nF),
       Line(D_C2, V_100nF, S_top, N_2, V_100nF),
       Line(D_C3, V_100nF, S_bottom, N_3, V_100nF),
       Line(D_R1, V_100nF, S_bottom, N_1, V_100nF) >>

HighlightFiles == { f \in FilesOf(HighlightLines) : Len(f) >= 2 }

HighlightInputs == { S_space, S_a, V_100nF }

ScanHighlight == ScanFrom(HighlightInputs)

HighlightNext ==
    \/ ScanHighlight
    \/ TableCellClicked
    \/ SideSelectionChanged

SpecHighlight == InitWithFile(HighlightFiles) /\ [][HighlightNext]_vars

\* the step is a typed "a" that ends without an error, the board size being
\* known
TypedA ==
    /\ board_ok
    /\ last_op'.op = "scan" /\ last_op'.arg = S_a /\ last_op'.exc = "none"

\* a marker is shown at the position of table row r
RowMarked(r) ==
    \E m \in shown :
        /\ m.x = table[r + 1][csv_settings.col_x + 1]
        /\ m.y = table[r + 1][csv_settings.col_y + 1]

\* row r of the table has the part number of the current row
SharesPartNumber(r) ==
    table[r + 1][csv_settings.col_pn + 1] =
        table[cur_placement + 1][csv_settings.col_pn + 1]

\* C15: "a" typed on a current row with the highlight off leaves markers on
\* exactly the component rows that are in the active side's match list, are
\* unplaced and share the current row's part number; "a" typed with the
\* highlight on turns it off.
C15_HighlightsUnplacedSamePart ==
    [][ /\ (TypedA /\ cur_placement \in 1..(Len(table) - 1)
            /\ ~drawing_all_same_value) =>
               \A r \in 1..(Len(table) - 1) :
                   RowMarked(r)' <=>
                       /\ r \in Range(ActiveList)
                       /\ ~checked[r + 1]
                       /\ SharesPartNumber(r)
        /\ (TypedA /\ cur_placement \in 1..(Len(table) - 1)
            /\ drawing_all_same_value) =>
               ~drawing_all_same_value' ]_vars

\* m is a marker at the position of table row r, mirrored exactly when the
\* row is a bottom-side row
MarkerOfRow(m, r) ==
    /\ m.x = table[r + 1][csv_settings.col_x + 1]
    /\ m.y = table[r + 1][csv_settings.col_y + 1]
    /\ m.mirror = (isTopLayer(Window, r) = "False")

\* every marker shown is that of a row of the table, mirrored by its side
MarkersMirroredBySide ==
    \A m \in shown : \E r \in 1..(Len(table) - 1) : MarkerOfRow(m, r)

\* C17: every handler that draws (the current-placement marker, the
\* clicked-row marker and the additional markers of "a") leaves only
\* markers that are mirrored for bottom-side rows and not mirrored for
\* top-side rows.
C17_MarkersMirroredBySide ==
    [][ (last_op'.exc = "none" /\ shown' # shown) =>
            MarkersMirroredBySide' ]_vars

\* ---------------------------------------------------------------------
\* A match that fails on a row whose side cannot be derived
\* (specification SpecMatch) and the advance signal without a current row
\* (specification Spec).

\* the step is a match that stopped on a row whose side cannot be derived,
\* the match lists of an earlier match being there
MatchFailedOnSide ==
    /\ has_DesList
    /\ last_op.exc = "none"
    /\ last_op'.match.kind \in {"pn", "com"}
    /\ ~last_op'.match.done
    /\ last_op'.exc = "ValueError"

\* C16: a match that fails because the side of a matched row cannot be
\* derived leaves the match lists and the current row as they were.
C16_FailedMatchKeepsListsAndCursor ==
    [][ MatchFailedOnSide =>
            UNCHANGED << topDesList, botDesList, cur_placement >> ]_vars

\* C18: the advance signal without a current row leaves every placed flag
\* as it is and runs find_next on the stored lists to its end, without an
\* error, in every state: before any match as well as after the list is
\* exhausted.
C18_AdvanceWithoutCursorIsHarmless ==
    [][ (AdvanceStep /\ cur_placement = None) =>
            /\ checked' = checked
            /\ last_op'.exc = "none"
            /\ last_op'.fnp ]_vars

====
